---- MODULE Spec2Model ----
(***************************************************************************)
(* cdk-aws-ecs-dockerhub-cache: the environment validation at module load  *)
(* and the resource graph MyStack's constructor declares                   *)
(* (src/src/stacks/my-stack.ts), followed by the deployment of the         *)
(* declared resources in any order its dependency edges allow.             *)
(*                                                                         *)
(* Text values (environment values, the secret's JSON string) are          *)
(* sequences of one-character strings.  A property value handed to a       *)
(* resource is either a literal or a token standing for an attribute that  *)
(* another resource generates at deployment; only tokens induce            *)
(* dependency edges.                                                       *)
(***************************************************************************)
EXTENDS Integers, Sequences, FiniteSets, TLC

VARIABLES environ, env, errMsg, pc, declared, props, refs, deps, sgRules, created

vars == <<environ, env, errMsg, pc, declared, props, refs, deps, sgRules, created>>

\* Longest environment value enumerated.
MaxValLen == 1

\* Characters of environment values: a plain one and one JSON must escape.
Alphabet == {"a", "\""}

\* Names the process environment may hold: the two credentials and one other.
EnvKeys == {"DOCKERHUB_USERNAME", "DOCKERHUB_ACCESS_TOKEN", "PATH"}

RECURSIVE SeqsUpTo(_)
SeqsUpTo(n) ==
  IF n = 0 THEN {<<>>}
  ELSE LET S == SeqsUpTo(n - 1)
       IN S \cup {Append(s, c) : s \in {t \in S : Len(t) = n - 1}, c \in Alphabet}

EnvValues == SeqsUpTo(MaxValLen)

Range(s) == {s[i] : i \in 1..Len(s)}

IndexOf(s, x) == IF x \in Range(s) THEN CHOOSE i \in 1..Len(s) : s[i] = x ELSE 0

Before(s, a, b) == IndexOf(s, a) > 0 /\ IndexOf(s, b) > 0 /\ IndexOf(s, a) < IndexOf(s, b)

ECR_PULL_THROUGH_CACHE_PREFIX == "ecr-pullthroughcache/"

\* ------------------------------------------------------------------ validateEnv

RequiredKeysTypo == <<"DOCKERHUB_USER", "DOCKERHUB_ACCESS_TOKEN">>

RequiredKeysOnlyUser == <<"DOCKERHUB_USERNAME">>

\* The list my-stack.ts passes to validateEnv.
RequiredKeys == <<"DOCKERHUB_USERNAME", "DOCKERHUB_ACCESS_TOKEN">>

\* A key that is absent from the environment or set to the empty string.
IsMissing(e, k) == k \notin DOMAIN e \/ e[k] = <<>>

MissingKeys(keys, e) == SelectSeq(keys, LAMBDA k : IsMissing(e, k))

\* The configuration error's message, word by word.
MissingMessage(missing) == <<"Missing", "required", "environment", "variables:">> \o missing

\* validateEnv(keys) over environment e: the mapping of every key to its value,
\* or the error naming all the missing keys.
validateEnv(keys, e) ==
  LET missing == MissingKeys(keys, e)
  IN IF missing = <<>>
     THEN [ok |-> TRUE, value |-> [k \in Range(keys) |-> e[k]], message |-> <<>>]
     ELSE [ok |-> FALSE, value |-> <<>>, message |-> MissingMessage(missing)]

Mentions(msg, k) == k \in Range(msg)

\* The module-level env before validateEnv has returned.
NoEnv == <<>>

\* --------------------------------------------------------------- JSON.stringify

JsonEscape(c) == IF c = "\"" THEN <<"\\", "\"">> ELSE IF c = "\\" THEN <<"\\", "\\">> ELSE <<c>>

RECURSIVE JsonEscapeAll(_)
JsonEscapeAll(s) == IF s = <<>> THEN <<>> ELSE JsonEscape(Head(s)) \o JsonEscapeAll(Tail(s))

JsonString(s) == <<"\"">> \o JsonEscapeAll(s) \o <<"\"">>

UsernameField == <<"u", "s", "e", "r", "n", "a", "m", "e">>

AccessTokenField == <<"a", "c", "c", "e", "s", "s", "T", "o", "k", "e", "n">>

\* JSON.stringify({ username: u, accessToken: t })
JsonStringifyCredentials(u, t) ==
  <<"{">> \o JsonString(UsernameField) \o <<":">> \o JsonString(u) \o <<",">>
          \o JsonString(AccessTokenField) \o <<":">> \o JsonString(t) \o <<"}">>

\* Reading a JSON string back: t[i] is its opening quote.
RECURSIVE JsonReadChars(_, _, _)
JsonReadChars(t, i, acc) ==
  IF i > Len(t) THEN [val |-> acc, next |-> i]
  ELSE IF t[i] = "\"" THEN [val |-> acc, next |-> i + 1]
  ELSE IF t[i] = "\\" /\ i < Len(t) THEN JsonReadChars(t, i + 2, Append(acc, t[i + 1]))
  ELSE JsonReadChars(t, i + 1, Append(acc, t[i]))

JsonReadString(t, i) == JsonReadChars(t, i + 1, <<>>)

\* Reading the members of a JSON object of string members: t[i] opens a name.
RECURSIVE JsonReadMembers(_, _, _)
JsonReadMembers(t, i, acc) ==
  IF i > Len(t) \/ t[i] # "\"" THEN acc
  ELSE LET name == JsonReadString(t, i)
           value == JsonReadString(t, name.next + 1)
       IN JsonReadMembers(t, value.next + 1, acc \cup {<<name.val, value.val>>})

\* The (name, value) pairs of the JSON object text t.
JsonParseObject(t) == IF t = <<>> \/ t[1] # "{" THEN {} ELSE JsonReadMembers(t, 2, {})

\* ------------------------------------------------------------ property values

\* A literal property value.
Lit(s) == [token |-> FALSE, of |-> "", attr |-> s]

\* A token for attribute attr that resource id generates when it is created.
Tok(id, attr) == [token |-> TRUE, of |-> id, attr |-> attr]

\* The dependency edges the tokens among vals induce on resource id.
TokenEdges(id, vals) == {<<id, v.of>> : v \in {x \in vals : x.token}}

HttpPort == 80

AnyIpv4 == "0.0.0.0/0"

\* ------------------------------------------------------------------- the steps

NextStepRepoAfterCluster(p) ==
  CASE p = "ModuleLoad" -> "Secret"
    [] p = "Secret" -> "Vpc"
    [] p = "Vpc" -> "Alb"
    [] p = "Alb" -> "Listener"
    [] p = "Listener" -> "Role"
    [] p = "Role" -> "CacheRule"
    [] p = "CacheRule" -> "RegistryPolicy"
    [] p = "RegistryPolicy" -> "Cluster"
    [] p = "Cluster" -> "Repo"
    [] p = "Repo" -> "TaskDef"
    [] p = "TaskDef" -> "AddContainer"
    [] p = "AddContainer" -> "Service"
    [] p = "Service" -> "AddDependency"
    [] p = "AddDependency" -> "LbTarget"
    [] p = "LbTarget" -> "AddTargets"
    [] p = "AddTargets" -> "AllowFrom"
    [] p = "AllowFrom" -> "done"

\* The statement that runs after statement p: the module's and the
\* constructor's statements run once each, top to bottom.
NextStep(p) ==
  CASE p = "ModuleLoad" -> "Secret"
    [] p = "Secret" -> "Vpc"
    [] p = "Vpc" -> "Alb"
    [] p = "Alb" -> "Listener"
    [] p = "Listener" -> "Role"
    [] p = "Role" -> "CacheRule"
    [] p = "CacheRule" -> "RegistryPolicy"
    [] p = "RegistryPolicy" -> "Repo"
    [] p = "Repo" -> "Cluster"
    [] p = "Cluster" -> "TaskDef"
    [] p = "TaskDef" -> "AddContainer"
    [] p = "AddContainer" -> "Service"
    [] p = "Service" -> "AddDependency"
    [] p = "AddDependency" -> "LbTarget"
    [] p = "LbTarget" -> "AddTargets"
    [] p = "AddTargets" -> "AllowFrom"
    [] p = "AllowFrom" -> "done"

\* The state after the module is loaded in a process whose environment is any
\* the bounds allow: nothing validated, nothing declared, nothing deployed.
Init ==
  /\ \E D \in SUBSET EnvKeys : environ \in [D -> EnvValues]
  /\ env = NoEnv
  /\ errMsg = <<>>
  /\ pc = "ModuleLoad"
  /\ declared = <<>>
  /\ props = <<>>
  /\ refs = {}
  /\ deps = {}
  /\ sgRules = {}
  /\ created = {}

\* A statement that declares construct id with properties p, mentioning the
\* earlier objects in mentioned and receiving the values in vals.
Declare(step, id, p, mentioned, vals) ==
  /\ pc = step
  /\ declared' = Append(declared, id)
  /\ props' = props @@ (id :> p)
  /\ refs' = refs \cup {<<id, m>> : m \in mentioned}
  /\ deps' = deps \cup TokenEdges(id, vals)
  /\ pc' = NextStep(step)
  /\ UNCHANGED <<environ, env, errMsg, created>>

\* const env = validateEnv([...]) returns.
ModuleLoadOk ==
  /\ pc = "ModuleLoad"
  /\ validateEnv(RequiredKeys, environ).ok
  /\ env' = validateEnv(RequiredKeys, environ).value
  /\ pc' = NextStep(pc)
  /\ UNCHANGED <<environ, errMsg, declared, props, refs, deps, sgRules, created>>

ModuleLoadFailDefaulted ==
  /\ pc = "ModuleLoad"
  /\ ~validateEnv(RequiredKeys, environ).ok
  /\ errMsg' = validateEnv(RequiredKeys, environ).message
  /\ env' = [k \in Range(RequiredKeys) |-> IF IsMissing(environ, k) THEN <<>> ELSE environ[k]]
  /\ pc' = NextStep(pc)
  /\ UNCHANGED <<environ, declared, props, refs, deps, sgRules, created>>

\* const env = validateEnv([...]) throws: the module fails to load, and the
\* class is never defined or instantiated.
ModuleLoadFail ==
  /\ pc = "ModuleLoad"
  /\ ~validateEnv(RequiredKeys, environ).ok
  /\ errMsg' = validateEnv(RequiredKeys, environ).message
  /\ pc' = "error"
  /\ UNCHANGED <<environ, env, declared, props, refs, deps, sgRules, created>>

\* new Secret(this, "DhCacheRuleSecret", ...)
DeclareSecret ==
  /\ Declare("Secret", "DhCacheRuleSecret",
             [kind |-> "Secret",
              secretName |-> <<ECR_PULL_THROUGH_CACHE_PREFIX, "dockerhub">>,
              secretStringValue |->
                JsonStringifyCredentials(env["DOCKERHUB_USERNAME"], env["DOCKERHUB_ACCESS_TOKEN"]),
              removalPolicy |-> "DESTROY"],
             {}, {})
  /\ UNCHANGED sgRules

\* Vpc.fromLookup(this, "DefaultVpc", { isDefault: true })
LookupVpc ==
  /\ Declare("Vpc", "DefaultVpc", [kind |-> "VpcLookup", isDefault |-> TRUE], {}, {})
  /\ UNCHANGED sgRules

\* new ApplicationLoadBalancer(this, "NginxAlb", ...)
DeclareAlb ==
  /\ Declare("Alb", "NginxAlb",
             [kind |-> "LoadBalancer", vpc |-> "DefaultVpc", internetFacing |-> TRUE],
             {"DefaultVpc"}, {})
  /\ UNCHANGED sgRules

\* nginxAlb.addListener("NginxAlbHttpListener", ...): the listener of an
\* internet-facing load balancer opens the balancer's port to any address.
AddListener ==
  /\ Declare("Listener", "NginxAlbHttpListener",
             [kind |-> "Listener", loadBalancer |-> Tok("NginxAlb", "loadBalancerArn"),
              port |-> HttpPort, protocol |-> "HTTP"],
             {"NginxAlb"}, {Tok("NginxAlb", "loadBalancerArn")})
  /\ sgRules' = sgRules \cup
       {[target |-> "NginxAlb", source |-> AnyIpv4, protocol |-> "tcp", port |-> HttpPort]}

\* new Role(this, "EcsTaskExecutionRole", ...)
DeclareRole ==
  /\ Declare("Role", "EcsTaskExecutionRole",
             [kind |-> "Role", assumedBy |-> "ecs-tasks.amazonaws.com",
              managedPolicies |-> {"service-role/AmazonECSTaskExecutionRolePolicy"}],
             {}, {})
  /\ UNCHANGED sgRules

DeclareCacheRuleLiteralArn ==
  /\ Declare("CacheRule", "DhCacheRule",
             [kind |-> "PullThroughCacheRule",
              ecrRepositoryPrefix |-> Lit("dockerhub"),
              upstreamRegistry |-> "docker-hub",
              upstreamRegistryUrl |-> "registry-1.docker.io",
              credentialArn |-> Lit("arn:aws:secretsmanager:secret:ecr-pullthroughcache/dockerhub")],
             {}, {Lit("arn:aws:secretsmanager:secret:ecr-pullthroughcache/dockerhub")})
  /\ UNCHANGED sgRules

\* new CfnPullThroughCacheRule(this, "DhCacheRule", ...)
DeclareCacheRule ==
  /\ Declare("CacheRule", "DhCacheRule",
             [kind |-> "PullThroughCacheRule",
              ecrRepositoryPrefix |-> Lit("dockerhub"),
              upstreamRegistry |-> "docker-hub",
              upstreamRegistryUrl |-> "registry-1.docker.io",
              credentialArn |-> Tok("DhCacheRuleSecret", "secretArn")],
             {"DhCacheRuleSecret"}, {Tok("DhCacheRuleSecret", "secretArn")})
  /\ UNCHANGED sgRules

\* new CfnRegistryPolicy(this, "DhCacheRegistryPolicy", ...): the resource
\* pattern is built from the value the cache rule was given as its prefix.
DeclareRegistryPolicy ==
  /\ Declare("RegistryPolicy", "DhCacheRegistryPolicy",
             [kind |-> "RegistryPolicy",
              sid |-> "AllowDockerhubCache",
              effect |-> "Allow",
              principal |-> Tok("EcsTaskExecutionRole", "roleArn"),
              action |-> {"ecr:CreateRepository", "ecr:BatchImportUpstreamImage"},
              resource |-> <<"repository", props["DhCacheRule"].ecrRepositoryPrefix.attr, "*">>],
             {"EcsTaskExecutionRole", "DhCacheRule"},
             {Tok("EcsTaskExecutionRole", "roleArn"), props["DhCacheRule"].ecrRepositoryPrefix})
  /\ UNCHANGED sgRules

DeclareRepoUpstreamName ==
  /\ Declare("Repo", "EcrNginxRepo",
             [kind |-> "Repository",
              repositoryName |-> <<props["DhCacheRule"].upstreamRegistry, "library", "nginx">>,
              removalPolicy |-> "DESTROY", emptyOnDelete |-> TRUE],
             {"DhCacheRule"}, {})
  /\ UNCHANGED sgRules

\* new Repository(this, "EcrNginxRepo", ...)
DeclareRepo ==
  /\ Declare("Repo", "EcrNginxRepo",
             [kind |-> "Repository",
              repositoryName |->
                <<props["DhCacheRule"].ecrRepositoryPrefix.attr, "library", "nginx">>,
              removalPolicy |-> "DESTROY", emptyOnDelete |-> TRUE],
             {"DhCacheRule"}, {props["DhCacheRule"].ecrRepositoryPrefix})
  /\ UNCHANGED sgRules

\* new Cluster(this, "EcsCluster", { vpc: defaultVpc })
DeclareCluster ==
  /\ Declare("Cluster", "EcsCluster", [kind |-> "Cluster", vpc |-> "DefaultVpc"],
             {"DefaultVpc"}, {})
  /\ UNCHANGED sgRules

DeclareTaskDefOwnRole ==
  /\ Declare("TaskDef", "EcsTaskDefinition",
             [kind |-> "TaskDefinition", compatibility |-> "FARGATE",
              cpu |-> "512", memoryMiB |-> "1024",
              executionRole |-> Tok("EcsTaskDefinition/ExecutionRole", "roleArn"),
              containers |-> {}],
             {}, {})
  /\ UNCHANGED sgRules

\* new TaskDefinition(this, "EcsTaskDefinition", ...)
DeclareTaskDef ==
  /\ Declare("TaskDef", "EcsTaskDefinition",
             [kind |-> "TaskDefinition", compatibility |-> "FARGATE",
              cpu |-> "512", memoryMiB |-> "1024",
              executionRole |-> Tok("EcsTaskExecutionRole", "roleArn"),
              containers |-> {}],
             {"EcsTaskExecutionRole"}, {Tok("EcsTaskExecutionRole", "roleArn")})
  /\ UNCHANGED sgRules

\* ecsTaskDefinition.addContainer("nginx", ...): the image is the declared
\* repository's generated URI.
AddContainer ==
  /\ pc = "AddContainer"
  /\ props' = [props EXCEPT !["EcsTaskDefinition"].containers = @ \cup
       {[name |-> "nginx", image |-> Tok("EcrNginxRepo", "repositoryUri"),
         containerPort |-> HttpPort, hostPort |-> HttpPort, protocol |-> "tcp"]}]
  /\ refs' = refs \cup {<<"EcsTaskDefinition", "EcrNginxRepo">>}
  /\ deps' = deps \cup TokenEdges("EcsTaskDefinition", {Tok("EcrNginxRepo", "repositoryUri")})
  /\ pc' = NextStep(pc)
  /\ UNCHANGED <<environ, env, errMsg, declared, sgRules, created>>

\* new FargateService(this, "NginxService", ...)
DeclareService ==
  /\ Declare("Service", "NginxService",
             [kind |-> "Service", cluster |-> Tok("EcsCluster", "clusterName"),
              taskDefinition |-> Tok("EcsTaskDefinition", "taskDefinitionArn"),
              desiredCount |-> 2, assignPublicIp |-> TRUE],
             {"EcsCluster", "EcsTaskDefinition"},
             {Tok("EcsCluster", "clusterName"), Tok("EcsTaskDefinition", "taskDefinitionArn")})
  /\ UNCHANGED sgRules

AddDependencyOmitted ==
  /\ pc = "AddDependency"
  /\ pc' = NextStep(pc)
  /\ UNCHANGED <<environ, env, errMsg, declared, props, refs, deps, sgRules, created>>

\* nginxService.node.addDependency(dhCacheRegistryPolicy)
AddDependency ==
  /\ pc = "AddDependency"
  /\ refs' = refs \cup {<<"NginxService", "DhCacheRegistryPolicy">>}
  /\ deps' = deps \cup {<<"NginxService", "DhCacheRegistryPolicy">>}
  /\ pc' = NextStep(pc)
  /\ UNCHANGED <<environ, env, errMsg, declared, props, sgRules, created>>

\* nginxService.loadBalancerTarget(...): a handle on the service's container
\* port; nothing is declared.
LoadBalancerTarget ==
  /\ pc = "LbTarget"
  /\ pc' = NextStep(pc)
  /\ UNCHANGED <<environ, env, errMsg, declared, props, refs, deps, sgRules, created>>

\* nginxAlbHttpListener.addTargets("HttpTarget", ...): the statement mentions
\* the listener and the service's target; in the declared graph the listener
\* forwards to the group and the service registers with it.
AddTargets ==
  /\ pc = "AddTargets"
  /\ declared' = Append(declared, "HttpTarget")
  /\ props' = props @@ ("HttpTarget" :>
       [kind |-> "TargetGroup", port |-> HttpPort, protocol |-> "HTTP",
        targets |-> {[service |-> "NginxService", containerName |-> "nginx",
                      containerPort |-> HttpPort]},
        healthCheckPath |-> "/", healthyHttpCodes |-> "200"])
  /\ refs' = refs \cup {<<"HttpTarget", "NginxAlbHttpListener">>, <<"HttpTarget", "NginxService">>}
  /\ deps' = deps \cup TokenEdges("NginxAlbHttpListener", {Tok("HttpTarget", "targetGroupArn")})
                  \cup TokenEdges("NginxService", {Tok("HttpTarget", "targetGroupArn")})
  /\ pc' = NextStep(pc)
  /\ UNCHANGED <<environ, env, errMsg, sgRules, created>>

AllowFromAnyIpv4 ==
  /\ Declare("AllowFrom", "AllowAlbToNginx",
             [kind |-> "IngressRule", description |-> "Allow ALB to access Nginx HTTP endpoint"],
             {"NginxService"}, {Tok("NginxService", "securityGroupId")})
  /\ sgRules' = sgRules \cup
       {[target |-> "NginxService", source |-> AnyIpv4, protocol |-> "tcp", port |-> HttpPort]}

\* nginxService.connections.allowFrom(nginxAlb, Port.tcp(80), ...)
AllowFrom ==
  /\ Declare("AllowFrom", "AllowAlbToNginx",
             [kind |-> "IngressRule", description |-> "Allow ALB to access Nginx HTTP endpoint"],
             {"NginxService", "NginxAlb"},
             {Tok("NginxService", "securityGroupId"), Tok("NginxAlb", "securityGroupId")})
  /\ sgRules' = sgRules \cup
       {[target |-> "NginxService", source |-> "NginxAlb", protocol |-> "tcp", port |-> HttpPort]}

\* The declared constructs that become resources of the deployment: all but
\* the looked-up network, which already exists.
Resources == {id \in Range(declared) : props[id].kind # "VpcLookup"}

\* The deployment creates a declared resource once every resource it depends
\* on has been created; resources without an edge between them come in any
\* order.
Deploy ==
  /\ pc = "done"
  /\ \E r \in Resources \ created :
       /\ \A e \in deps : e[1] = r => e[2] \in created
       /\ created' = created \cup {r}
  /\ UNCHANGED <<environ, env, errMsg, pc, declared, props, refs, deps, sgRules>>

Assemble ==
  \/ DeclareSecret
  \/ LookupVpc
  \/ DeclareAlb
  \/ AddListener
  \/ DeclareRole
  \/ DeclareCacheRule
  \/ DeclareRegistryPolicy
  \/ DeclareRepo
  \/ DeclareCluster
  \/ DeclareTaskDef
  \/ AddContainer
  \/ DeclareService
  \/ AddDependency
  \/ LoadBalancerTarget
  \/ AddTargets
  \/ AllowFrom

Next ==
  \/ ModuleLoadOk
  \/ ModuleLoadFail
  \/ Assemble
  \/ Deploy

Spec == Init /\ [][Next]_vars

\* ---------------------------------------------------------------- properties

CredentialKeys == {"DOCKERHUB_USERNAME", "DOCKERHUB_ACCESS_TOKEN"}

\* Every credential is present in the environment with a non-empty value.
EnvironValid == \A k \in CredentialKeys : k \in DOMAIN environ /\ environ[k] # <<>>

Validated == pc # "ModuleLoad"

\* C1: when DOCKERHUB_USERNAME and DOCKERHUB_ACCESS_TOKEN are both present and
\* non-empty, validateEnv does not fail, and the mapping it returns has exactly
\* those two keys, each with the environment's own value.
C1_ValidateEnvSuccess ==
  (Validated /\ EnvironValid) =>
    /\ pc # "error"
    /\ errMsg = <<>>
    /\ DOMAIN env = CredentialKeys
    /\ \A k \in CredentialKeys : env[k] = environ[k]

\* A valid environment that also holds another variable has been validated:
\* the values are kept as they are, quote included, and PATH is not copied.
C1_Witness ==
  /\ Validated /\ EnvironValid
  /\ "PATH" \in DOMAIN environ
  /\ DOMAIN env = CredentialKeys
  /\ env["DOCKERHUB_USERNAME"] = <<"a">>
  /\ env["DOCKERHUB_ACCESS_TOKEN"] = <<"\"">>

\* C2: when a credential is missing or empty, validateEnv fails, and its
\* message names every missing credential and no credential that is set.
C2_ValidateEnvFailure ==
  (Validated /\ ~EnvironValid) =>
    /\ pc = "error"
    /\ errMsg # <<>>
    /\ \A k \in CredentialKeys : Mentions(errMsg, k) <=> IsMissing(environ, k)

\* Only DOCKERHUB_USERNAME is set: the error names the token and not the name.
C2_Witness ==
  /\ pc = "error"
  /\ "DOCKERHUB_USERNAME" \in DOMAIN environ /\ environ["DOCKERHUB_USERNAME"] = <<"a">>
  /\ "DOCKERHUB_ACCESS_TOKEN" \notin DOMAIN environ
  /\ Mentions(errMsg, "DOCKERHUB_ACCESS_TOKEN")
  /\ ~Mentions(errMsg, "DOCKERHUB_USERNAME")

\* Both credentials are missing (one absent, one empty) and both are named.
C2_WitnessBoth ==
  /\ pc = "error"
  /\ "DOCKERHUB_USERNAME" \notin DOMAIN environ
  /\ "DOCKERHUB_ACCESS_TOKEN" \in DOMAIN environ /\ environ["DOCKERHUB_ACCESS_TOKEN"] = <<>>
  /\ Mentions(errMsg, "DOCKERHUB_ACCESS_TOKEN")
  /\ Mentions(errMsg, "DOCKERHUB_USERNAME")

\* The configuration is absent, or complete with non-empty values.
ConfigWhole ==
  \/ env = NoEnv
  \/ /\ DOMAIN env = CredentialKeys
     /\ \A k \in CredentialKeys : env[k] # <<>>

\* C3: nothing is declared before validation has succeeded; after a
\* configuration error nothing is ever declared and no configuration exists; a
\* configuration is never partial; and once produced it never changes.
C3_FailFastAllOrNothing ==
  /\ [](declared # <<>> => (Validated /\ env # NoEnv /\ errMsg = <<>>))
  /\ []((errMsg # <<>> \/ pc = "error") => (declared = <<>> /\ env = NoEnv /\ created = {}))
  /\ []ConfigWhole
  /\ [][env # NoEnv => env' = env]_vars

\* A run that failed validation and stopped with nothing declared.
C3_WitnessError == pc = "error" /\ errMsg # <<>> /\ declared = <<>> /\ env = NoEnv

\* A run that validated, declared the whole graph and kept its configuration.
C3_WitnessDone == pc = "done" /\ env # NoEnv /\ Len(declared) > 1 /\ errMsg = <<>>

\* C4: the assembled graph holds the edge from NginxService to
\* DhCacheRegistryPolicy, and no deployment creates the service while the
\* registry policy does not exist.
C4_ServiceAfterRegistryPolicy ==
  /\ pc = "done" => <<"NginxService", "DhCacheRegistryPolicy">> \in deps
  /\ "NginxService" \in created => "DhCacheRegistryPolicy" \in created

\* The service has been created, after the policy.
C4_Witness ==
  /\ "NginxService" \in created
  /\ "DhCacheRegistryPolicy" \in created
  /\ <<"NginxService", "DhCacheRegistryPolicy">> \in deps

\* The inbound rules declared for the service.
ServiceIngress == {r \in sgRules : r.target = "NginxService"}

\* C5: every inbound rule declared for the service admits only the load
\* balancer, on TCP port 80, and the assembled graph has such a rule.
C5_LeastPrivilegeIngress ==
  /\ \A r \in ServiceIngress : r.source = "NginxAlb" /\ r.protocol = "tcp" /\ r.port = 80
  /\ pc = "done" => ServiceIngress # {}

\* The graph is assembled: the service has a public address, the balancer is
\* open to any address, and the service admits the balancer.
C5_Witness ==
  /\ pc = "done"
  /\ props["NginxService"].assignPublicIp
  /\ props["NginxAlb"].internetFacing
  /\ \E r \in sgRules : r.target = "NginxAlb" /\ r.source = AnyIpv4
  /\ \E r \in ServiceIngress : r.source = "NginxAlb"

\* The value the secret's JSON text holds under name.
SecretField(name) ==
  {m[2] : m \in {x \in JsonParseObject(props["DhCacheRuleSecret"].secretStringValue) : x[1] = name}}

\* C6: when the cache rule is declared the secret is already declared, holds
\* the validated username and access token, and is what the rule's credential
\* refers to; and no deployment creates the cache rule before the secret.
C6_SecretBeforeCacheRule ==
  /\ "DhCacheRule" \in Range(declared) =>
       /\ Before(declared, "DhCacheRuleSecret", "DhCacheRule")
       /\ SecretField(UsernameField) = {environ["DOCKERHUB_USERNAME"]}
       /\ SecretField(AccessTokenField) = {environ["DOCKERHUB_ACCESS_TOKEN"]}
       /\ props["DhCacheRule"].credentialArn = Tok("DhCacheRuleSecret", "secretArn")
  /\ "DhCacheRule" \in created => "DhCacheRuleSecret" \in created

\* The cache rule has been created, and the secret holds a username with a
\* quote in it.
C6_Witness ==
  /\ "DhCacheRule" \in created
  /\ "DhCacheRuleSecret" \in created
  /\ SecretField(UsernameField) = {<<"\"">>}
  /\ SecretField(AccessTokenField) = {<<"a">>}

\* C7: the registry policy allows exactly create-repository and
\* import-upstream-image, to the execution role, on repository/<prefix>/*, and
\* the repository is named <prefix>/library/nginx, where <prefix> is the
\* prefix the cache rule declares.
C7_NamespacePrefixConsistency ==
  LET prefix == props["DhCacheRule"].ecrRepositoryPrefix.attr
  IN /\ "DhCacheRegistryPolicy" \in Range(declared) =>
          /\ props["DhCacheRegistryPolicy"].effect = "Allow"
          /\ props["DhCacheRegistryPolicy"].action =
               {"ecr:CreateRepository", "ecr:BatchImportUpstreamImage"}
          /\ props["DhCacheRegistryPolicy"].principal = Tok("EcsTaskExecutionRole", "roleArn")
          /\ props["DhCacheRegistryPolicy"].resource = <<"repository", prefix, "*">>
     /\ "EcrNginxRepo" \in Range(declared) =>
          /\ "DhCacheRegistryPolicy" \in Range(declared)
          /\ props["EcrNginxRepo"].repositoryName = <<prefix, "library", "nginx">>
          /\ props["EcrNginxRepo"].repositoryName[1] = props["DhCacheRegistryPolicy"].resource[2]

\* The rule, the policy and the repository are all declared.
C7_Witness ==
  /\ {"DhCacheRule", "DhCacheRegistryPolicy", "EcrNginxRepo"} \subseteq Range(declared)
  /\ props["EcrNginxRepo"].repositoryName[1] = "dockerhub"

\* The roles declared so far.
DeclaredRoles == {id \in Range(declared) : props[id].kind = "Role"}

\* The roles the policy's principal and the task definition's execution role
\* name.
RolesInUse ==
  {props[id].principal.of : id \in {x \in Range(declared) : props[x].kind = "RegistryPolicy"}}
    \cup {props[id].executionRole.of : id \in {x \in Range(declared) : props[x].kind = "TaskDefinition"}}

\* C8: at most one role is declared, EcsTaskExecutionRole, and it is the role
\* both the registry policy's principal and the task definition's execution
\* role name; the assembled graph has exactly that one.
C8_SingleExecutionRole ==
  /\ DeclaredRoles \subseteq {"EcsTaskExecutionRole"}
  /\ RolesInUse \subseteq DeclaredRoles
  /\ \A i, j \in 1..Len(declared) : declared[i] = declared[j] => i = j
  /\ pc = "done" =>
       /\ DeclaredRoles = {"EcsTaskExecutionRole"}
       /\ props["DhCacheRegistryPolicy"].principal.of = "EcsTaskExecutionRole"
       /\ props["EcsTaskDefinition"].executionRole.of = "EcsTaskExecutionRole"

\* Policy and task definition are both declared and name the one role.
C8_Witness ==
  /\ {"DhCacheRegistryPolicy", "EcsTaskDefinition"} \subseteq Range(declared)
  /\ RolesInUse = {"EcsTaskExecutionRole"}

\* The order of declaration the specification gives.
DeclarationOrder ==
  <<"DhCacheRuleSecret", "DefaultVpc", "NginxAlb", "NginxAlbHttpListener",
    "EcsTaskExecutionRole", "DhCacheRule", "DhCacheRegistryPolicy", "EcrNginxRepo",
    "EcsCluster", "EcsTaskDefinition", "NginxService", "HttpTarget", "AllowAlbToNginx">>

Assembling == pc \notin {"ModuleLoad", "error", "done"}

\* C9: with a valid configuration the declarations made so far are a prefix of
\* the fixed order (each resource once), every declaration mentions only
\* resources declared before it, the run can always take its next step until
\* the graph is whole, and it ends with the whole graph declared.
C9_FixedOrderRunToCompletion ==
  /\ Len(declared) <= Len(DeclarationOrder)
  /\ declared = SubSeq(DeclarationOrder, 1, Len(declared))
  /\ \A e \in refs : Before(declared, e[2], e[1])
  /\ Assembling => ENABLED Assemble
  /\ (Validated /\ EnvironValid) => (Assembling \/ pc = "done")
  /\ pc = "done" => declared = DeclarationOrder

\* The whole graph is declared, with its references.
C9_Witness ==
  /\ pc = "done"
  /\ declared = DeclarationOrder
  /\ <<"DhCacheRule", "DhCacheRuleSecret">> \in refs
  /\ <<"NginxService", "DhCacheRegistryPolicy">> \in refs

RepoBeforeService == "NginxService" \in created => "EcrNginxRepo" \in created

====
